---------------------------- MODULE Spec2Model ----------------------------
(***************************************************************************)
(* A model of AtlasCryptoKit.py: the wallet command line tool.  One run of *)
(* the model is one invocation of main() with one sub-command, or one      *)
(* direct call of build_eth_transaction by a library caller.               *)
(*                                                                         *)
(* Python values are modelled as follows.                                  *)
(*   None / a value v        <<>> / <<v>>                                  *)
(*   str                     a sequence of one-character strings           *)
(*   int of unbounded size   [neg, digits] with decimal digits, most       *)
(*                           significant first (wei amounts exceed 2^31)   *)
(*   small int               an integer (nonce, gas, chain id)             *)
(*   decimal.Decimal         [sign, digits, exp]: (-1)^sign * digits *     *)
(*                           10^exp, as decimal.py stores it               *)
(*   dict                    a function from its keys                      *)
(* The libraries that are not part of the repository (mnemonic,            *)
(* eth_account, web3) are modelled by their interface: a call returns a    *)
(* value that is a function of its arguments, or raises.                   *)
(***************************************************************************)
EXTENDS Integers, Sequences, FiniteSets, TLC

None == <<>>
Some(v) == <<v>>

\* Python truthiness of an optional int: None and 0 are both falsy.
TruthyInt(o) == o # None /\ o[1] # 0

\* Python truthiness of an optional str: None and "" are both falsy.
TruthyStr(o) == o # None /\ Len(o[1]) > 0

---------------------------------------------------------------------------
(* Unbounded integers as digit sequences *)

\* ds without its leading zeros; the value 0 is <<0>>.
StripZeros(ds) ==
  IF \A i \in 1..Len(ds) : ds[i] = 0 THEN <<0>>
  ELSE LET f == CHOOSE i \in 1..Len(ds) :
                  ds[i] # 0 /\ \A j \in 1..(i - 1) : ds[j] = 0
       IN  SubSeq(ds, f, Len(ds))

Zeros(n) == [i \in 1..n |-> 0]

IsZeroDigits(ds) == \A i \in 1..Len(ds) : ds[i] = 0

\* The digit of ds at position k, counted from the right (0 = units).
DigitAt(ds, k) == IF k < Len(ds) THEN ds[Len(ds) - k] ELSE 0

\* Whether a + b carries into position k: some lower position generates a
\* carry and every position between propagates it.
CarryInto(a, b, k) ==
  \E j \in 0..(k - 1) :
    /\ DigitAt(a, j) + DigitAt(b, j) >= 10
    /\ \A m \in (j + 1)..(k - 1) : DigitAt(a, m) + DigitAt(b, m) = 9

AddDigits(a, b) ==
  LET n == (IF Len(a) > Len(b) THEN Len(a) ELSE Len(b)) + 1
  IN  StripZeros([i \in 1..n |->
        (DigitAt(a, n - i) + DigitAt(b, n - i)
           + (IF CarryInto(a, b, n - i) THEN 1 ELSE 0)) % 10])

RECURSIVE MulDigit(_, _)
MulDigit(a, d) ==
  \* a * d for one digit d, by repeated addition
  IF d = 0 THEN <<0>> ELSE AddDigits(MulDigit(a, d - 1), a)

RECURSIVE MulDigits(_, _)
MulDigits(a, b) ==
  \* schoolbook product, one digit of b at a time
  IF Len(b) = 0 THEN <<0>>
  ELSE LET hi == MulDigits(a, SubSeq(b, 1, Len(b) - 1))
           sh == IF IsZeroDigits(hi) THEN <<0>> ELSE hi \o <<0>>
       IN  IF b[Len(b)] = 0 THEN sh ELSE AddDigits(sh, MulDigit(a, b[Len(b)]))

\* The int 10**n.
Pow10(n) == <<1>> \o Zeros(n)

BigInt(neg, ds) ==
  LET s == StripZeros(ds)
  IN  [neg |-> neg /\ ~IsZeroDigits(s), digits |-> s]

---------------------------------------------------------------------------
(* decimal.Decimal under the default context *)

\* decimal.getcontext().prec of the default context.
DecimalPrec == 28

\* Decimal(n) for an int n >= 0: exact, exponent 0.
DecimalOfInt(ds) == [sign |-> 0, digits |-> StripZeros(ds), exp |-> 0]

DigitChars == {"0", "1", "2", "3", "4", "5", "6", "7", "8", "9"}

DigitOf(c) ==
  CASE c = "0" -> 0 [] c = "1" -> 1 [] c = "2" -> 2 [] c = "3" -> 3
    [] c = "4" -> 4 [] c = "5" -> 5 [] c = "6" -> 6 [] c = "7" -> 7
    [] c = "8" -> 8 [] c = "9" -> 9

\* Position of the first "." of s, or 0.
DotAt(s) ==
  IF \E i \in 1..Len(s) : s[i] = "."
  THEN CHOOSE i \in 1..Len(s) : s[i] = "." /\ \A j \in 1..(i - 1) : s[j] # "."
  ELSE 0

\* Decimal(str) for the plain notation [-]digits[.digits]; None stands for
\* decimal.InvalidOperation.  (Exponents, underscores, NaN and Infinity, which
\* Decimal also reads, are not among the modelled inputs.)
DecimalOfStr(s) ==
  LET neg  == Len(s) > 0 /\ s[1] = "-"
      body == IF neg THEN Tail(s) ELSE s
      dot  == DotAt(body)
      ip   == IF dot = 0 THEN body ELSE SubSeq(body, 1, dot - 1)
      fp   == IF dot = 0 THEN <<>> ELSE SubSeq(body, dot + 1, Len(body))
      all  == ip \o fp
  IN  IF Len(all) = 0 \/ \E i \in 1..Len(all) : all[i] \notin DigitChars
      THEN None
      ELSE Some([sign   |-> IF neg THEN 1 ELSE 0,
                 digits |-> StripZeros([i \in 1..Len(all) |-> DigitOf(all[i])]),
                 exp    |-> 0 - Len(fp)])

\* Decimal._round_half_even: whether keeping the first p digits of ds rounds up.
RoundsUp(ds, p) ==
  LET rest == SubSeq(ds, p + 1, Len(ds))
      half == rest[1] = 5 /\ IsZeroDigits(Tail(rest))
  IN  IF half THEN p > 0 /\ ds[p] % 2 = 1
      ELSE rest[1] >= 5

\* Decimal._fix: round a result to the context precision.
DecimalFix(d) ==
  IF IsZeroDigits(d.digits) \/ Len(d.digits) <= DecimalPrec THEN d
  ELSE LET drop  == Len(d.digits) - DecimalPrec
           kept  == SubSeq(d.digits, 1, DecimalPrec)
           coeff == IF RoundsUp(d.digits, DecimalPrec)
                    THEN AddDigits(kept, <<1>>) ELSE kept
       IN  IF Len(coeff) > DecimalPrec
           THEN [sign |-> d.sign, digits |-> SubSeq(coeff, 1, DecimalPrec),
                 exp |-> d.exp + drop + 1]
           ELSE [sign |-> d.sign, digits |-> coeff, exp |-> d.exp + drop]

\* Decimal.__mul__
DecimalMul(a, b) ==
  DecimalFix([sign   |-> (a.sign + b.sign) % 2,
              digits |-> MulDigits(a.digits, b.digits),
              exp    |-> a.exp + b.exp])

\* Number of zeros that end ds.
TrailingZeros(ds) ==
  IF IsZeroDigits(ds) THEN Len(ds)
  ELSE LET l == CHOOSE i \in 1..Len(ds) :
                  ds[i] # 0 /\ \A j \in (i + 1)..Len(ds) : ds[j] = 0
       IN  Len(ds) - l

\* Decimal(n) / Decimal(10**k) for an int n >= 0 (Decimal.__truediv__): zero
\* keeps the ideal exponent 0; an exact quotient sheds trailing zeros as far
\* as the exponent 0; the result is rounded to the context precision.
DecimalDivPow10(ds, k) ==
  IF IsZeroDigits(ds) THEN [sign |-> 0, digits |-> <<0>>, exp |-> 0]
  ELSE LET n == StripZeros(ds)
           z == IF TrailingZeros(n) < k THEN TrailingZeros(n) ELSE k
       IN  DecimalFix([sign |-> 0, digits |-> SubSeq(n, 1, Len(n) - z),
                       exp |-> z - k])

\* Decimal.__int__: truncation towards zero.
IntOfDecimal(d) ==
  IF d.exp >= 0 THEN BigInt(d.sign = 1, d.digits \o Zeros(d.exp))
  ELSE BigInt(d.sign = 1, SubSeq(d.digits, 1, Len(d.digits) + d.exp))

\* int(x * Decimal(10**n)), the conversion of lines 156, 164, 165 and 175.
ScaleToInt(x, n) == IntOfDecimal(DecimalMul(x, DecimalOfInt(Pow10(n))))

---------------------------------------------------------------------------
(* The collaborators: key library, address checksum, node *)

\* Strings that stand for whole values are atoms: a private key "k1", the
\* address "a1" (lower case) or "A1" (checksummed) of its account.
ValidKeys == {"k1", "k2"}

\* Account.from_key(k).address; None stands for the library's exception on a
\* malformed key.
AddressOfKey(k) ==
  CASE k = "k1" -> Some("A1")
    [] k = "k2" -> Some("A2")
    [] OTHER    -> None

\* Web3.toChecksumAddress; None stands for its ValueError.
ToChecksumAddress(a) ==
  CASE a \in {"a1", "A1"} -> Some("A1")
    [] a \in {"a2", "A2"} -> Some("A2")
    [] a \in {"t1", "T1"} -> Some("T1")
    [] OTHER              -> None

\* Largest transaction count the node answers with.
MaxNodeNonce == 1

NodeNonces == 0..MaxNodeNonce
NodeChainIds == {5}
NodeGasEstimates == {21000}
\* The node's suggested gas price: 1 Gwei in wei.
NodeGasPrices == {BigInt(FALSE, Pow10(9))}
\* Balances in wei and in token units: none, and 1.5 * 10^18.
NodeBalances == {<<0>>, <<1, 5>> \o Zeros(17)}
NodeDecimals == {6}
NodeSymbols == {"TKN"}

---------------------------------------------------------------------------
(* State *)

VARIABLES
  cmd,      \* the entry point of this run
  args,     \* the parsed command line (argparse.Namespace)
  pc,       \* the statement about to run
  loc,      \* the local variables of the command function
  b,        \* the arguments of the call of build_eth_transaction, or None
  bl,       \* the locals of build_eth_transaction besides tx
  tx,       \* the dict build_eth_transaction is filling, or None
  ret,      \* the value build_eth_transaction returned, or None
  signed,   \* the value sign_transaction returned, or None
  exc,      \* the exception raised, or None
  log,      \* what happened so far: prints, prompts, node calls, calls
  mempool,  \* the raw transactions the node has accepted
  lib,      \* which optional features the installed eth_account offers
  calls,    \* the concurrent library calls in flight, by caller
  game,     \* game_2048.py: the Game2048 object's grid, score and undo state
  attrs,    \* the attributes assigned on the Game2048 object so far
  shown,    \* what the game's widgets display
  gpc,      \* the statement of game_2048.py about to run
  gexc,     \* the exception that ended game_2048.py, or None
  moves,    \* how many moves and new games the player has made
  premove,  \* grid and score just before the latest move not yet undone
  last      \* the latest event handled and, for a move, the fields it found

\* The variables of game_2048.py.
gameVars == <<game, attrs, shown, gpc, gexc, moves, premove, last>>

\* The variables the command line tool leaves alone.
elsewhere == <<calls, gameVars>>

vars == <<cmd, args, pc, loc, b, bl, tx, ret, signed, exc, log, mempool, lib,
          calls, game, attrs, shown, gpc, gexc, moves, premove, last>>

\* Events of the log.
Printed(fmt, parts) == [kind |-> "print", name |-> fmt, data |-> parts, ok |-> TRUE]
\* A node call: its argument, whether it succeeded, and the node's answer.
Rpc(method, arg, ok, reply) ==
  [kind |-> "rpc", name |-> method, data |-> arg, ok |-> ok, reply |-> reply]
Called(fn, arg) == [kind |-> "call", name |-> fn, data |-> arg, ok |-> TRUE]
Returned(fn, val) == [kind |-> "return", name |-> fn, data |-> val, ok |-> TRUE]

\* Parts of a printed line, tagged with what they are.
Txt(s) == [t |-> "text", v |-> s]
Num(n) == [t |-> "int", v |-> n]
Adr(a) == [t |-> "address", v |-> a]
PrivKey(k) == [t |-> "privkey", v |-> k]
Obj(d) == [t |-> "json", v |-> d]
Err(e) == [t |-> "exception", v |-> e]

\* Runs that are a call of a function of the module, not of main().
DirectCalls == {"build", "signverify", "toseed"}

\* raise: main() catches every Exception (line 358); a direct caller of
\* build_eth_transaction sees it propagate.
Raise(e) ==
  /\ exc' = Some(e)
  /\ pc' = IF cmd \in DirectCalls THEN "raised" ELSE "main_except"

Rep(c, n) == [k \in 1..n |-> c]

---------------------------------------------------------------------------
(* build_eth_transaction, lines 140-182 *)

\* Line 162 as it would read if a legacy gas price overrode the fee pair.
FeeMarketChosenUnlessGasPrice(a) ==
  a.max_fee_gwei # None /\ a.max_priority_fee_gwei # None /\ a.gas_price_gwei = None

\* Line 162: the EIP-1559 branch is taken.
FeeMarketChosen(a) ==
  a.max_fee_gwei # None /\ a.max_priority_fee_gwei # None

\* Line 158: chain_id or w3.eth.chain_id takes the caller's chain_id.
ChainIdTaken(a) == TruthyInt(a.chain_id)

\* Lines 163-165 as they would read if the branch also kept a gas price.
FeeMarketFieldsWithGasPrice(a) ==
  [type                 |-> "0x2",
   maxFeePerGas         |-> ScaleToInt(a.max_fee_gwei[1], 9),
   maxPriorityFeePerGas |-> ScaleToInt(a.max_priority_fee_gwei[1], 9),
   gasPrice             |-> ScaleToInt(a.max_fee_gwei[1], 9)]

\* Lines 163-165: the keys the EIP-1559 branch sets.
FeeMarketFields(a) ==
  [type                 |-> "0x2",
   maxFeePerGas         |-> ScaleToInt(a.max_fee_gwei[1], 9),
   maxPriorityFeePerGas |-> ScaleToInt(a.max_priority_fee_gwei[1], 9)]

\* Lines 172-175 as they would read if a missing gas price defaulted to zero.
LegacyGasPriceDefaultZero(a, nodePrice) ==
  IF a.gas_price_gwei = None THEN BigInt(FALSE, <<0>>)
  ELSE ScaleToInt(a.gas_price_gwei[1], 9)

\* Lines 172-175: the legacy gas price, given the node's suggestion.
LegacyGasPrice(a, nodePrice) ==
  IF a.gas_price_gwei = None THEN nodePrice
  ELSE ScaleToInt(a.gas_price_gwei[1], 9)

\* Lines 167 and 178: the argument of estimate_gas.
EstimateArg == [to    |-> tx[1].to,
                from  |-> tx[1].from,
                value |-> tx[1].value]

\* Lines 147-151: checksum both addresses, then settle the nonce.
BuildStart ==
  /\ pc = "b_start"
  /\ LET fc == ToChecksumAddress(b[1].from_address)
         tc == ToChecksumAddress(b[1].to_address)
         in == Called("build_eth_transaction", b[1])
     IN  IF fc = None \/ tc = None
         THEN /\ Raise("ValueError")
              /\ log' = Append(log, in)
              /\ UNCHANGED bl
         ELSE IF b[1].nonce # None
         THEN /\ bl' = [from_checksum |-> fc[1], to_checksum |-> tc[1],
                        nonce |-> b[1].nonce[1]]
              /\ log' = Append(log, in)
              /\ pc' = "b_tx"
              /\ UNCHANGED exc
         ELSE \/ \E n \in NodeNonces :
                   /\ bl' = [from_checksum |-> fc[1], to_checksum |-> tc[1],
                             nonce |-> n]
                   /\ log' = log \o <<in, Rpc("get_transaction_count", fc[1], TRUE, n)>>
                   /\ pc' = "b_tx"
                   /\ UNCHANGED exc
              \/ /\ log' = log \o <<in, Rpc("get_transaction_count", fc[1], FALSE, None)>>
                 /\ Raise("NodeError")
                 /\ UNCHANGED bl
  /\ UNCHANGED <<elsewhere, cmd, lib, args, loc, b, tx, ret, signed, mempool>>

\* Lines 153-159: the dict with the fields both variants share.
NewTx(chainId) ==
  [from    |-> bl.from_checksum,
   to      |-> bl.to_checksum,
   value   |-> ScaleToInt(b[1].value_eth, 18),
   nonce   |-> bl.nonce,
   chainId |-> chainId]

BuildTx ==
  /\ pc = "b_tx"
  /\ IF ChainIdTaken(b[1])
     THEN /\ tx' = Some(NewTx(b[1].chain_id[1]))
          /\ pc' = "b_fee"
          /\ UNCHANGED <<log, exc>>
     ELSE \/ \E c \in NodeChainIds :
               /\ tx' = Some(NewTx(c))
               /\ log' = Append(log, Rpc("chain_id", None, TRUE, c))
               /\ pc' = "b_fee"
               /\ UNCHANGED exc
          \/ /\ log' = Append(log, Rpc("chain_id", None, FALSE, None))
             /\ Raise("NodeError")
             /\ UNCHANGED tx
  /\ UNCHANGED <<elsewhere, cmd, lib, args, loc, b, bl, ret, signed, mempool>>

\* Lines 161-165 and 170-176: the fee fields of the chosen variant.
BuildFee ==
  /\ pc = "b_fee"
  /\ IF FeeMarketChosen(b[1])
     THEN /\ tx' = Some(FeeMarketFields(b[1]) @@ tx[1])
          /\ pc' = "b_gas"
          /\ UNCHANGED <<log, exc>>
     ELSE IF b[1].gas_price_gwei # None
     THEN /\ tx' = Some([gasPrice |-> LegacyGasPrice(b[1], None)] @@ tx[1])
          /\ pc' = "b_gas"
          /\ UNCHANGED <<log, exc>>
     ELSE \/ \E p \in NodeGasPrices :
               /\ tx' = Some([gasPrice |-> LegacyGasPrice(b[1], p)] @@ tx[1])
               /\ log' = Append(log, Rpc("gas_price", None, TRUE, p))
               /\ pc' = "b_gas"
               /\ UNCHANGED exc
          \/ /\ log' = Append(log, Rpc("gas_price", None, FALSE, None))
             /\ Raise("NodeError")
             /\ UNCHANGED tx
  /\ UNCHANGED <<elsewhere, cmd, lib, args, loc, b, bl, ret, signed, mempool>>

\* Lines 167 and 178 as they would read with a fallback gas limit, the way
\* get_erc20_balance falls back to 18 decimals (lines 125-128).
EstimateGasFallback ==
  /\ log' = Append(log, Rpc("estimate_gas", EstimateArg, FALSE, None))
  /\ tx' = Some([gas |-> 21000] @@ tx[1])
  /\ pc' = "b_ret"
  /\ UNCHANGED exc

\* Lines 167 and 178 when the node fails: the exception leaves the function.
EstimateGasFailed ==
  /\ log' = Append(log, Rpc("estimate_gas", EstimateArg, FALSE, None))
  /\ Raise("NodeError")
  /\ UNCHANGED tx

\* Lines 166-169 and 177-180: the gas limit.
BuildGas ==
  /\ pc = "b_gas"
  /\ IF b[1].gas # None
     THEN /\ tx' = Some([gas |-> b[1].gas[1]] @@ tx[1])
          /\ pc' = "b_ret"
          /\ UNCHANGED <<log, exc>>
     ELSE \/ \E g \in NodeGasEstimates :
               /\ tx' = Some([gas |-> g] @@ tx[1])
               /\ log' = Append(log, Rpc("estimate_gas", EstimateArg, TRUE, g))
               /\ pc' = "b_ret"
               /\ UNCHANGED exc
          \/ EstimateGasFailed
  /\ UNCHANGED <<elsewhere, cmd, lib, args, loc, b, bl, ret, signed, mempool>>

\* Line 182.  In cmd_send the value is bound to tx at line 262.
BuildReturn ==
  /\ pc = "b_ret"
  /\ ret' = tx
  /\ log' = Append(log, Returned("build_eth_transaction", tx[1]))
  /\ pc' = IF cmd = "build" THEN "done" ELSE "send_preview"
  /\ UNCHANGED <<elsewhere, cmd, lib, args, loc, b, bl, tx, signed, exc, mempool>>

---------------------------------------------------------------------------
(* sign_transaction and send_signed_transaction, lines 185-193 *)

\* Account.sign_transaction: the serialized signed transaction is a function
\* of the key and of the fields; it names the signer's address, not the key.
RawTransaction(k, t) == [signer |-> AddressOfKey(k)[1], payload |-> t]

\* Lines 186-188 as they would read if the signed object carried the key.
SignTransactionKeepingKey(k, t) == [rawTransaction |-> [signer |-> k, payload |-> t]]

\* Lines 186-188.
SignTransaction(k, t) == [rawTransaction |-> RawTransaction(k, t)]

\* Line 192 as it would read if the unsigned serialization were sent.
RawUnsigned(sg) == [signer |-> "", payload |-> sg.rawTransaction.payload]

\* Line 192: what send_signed_transaction hands to the node.
RawToBroadcast(sg) == sg.rawTransaction

\* The node's hash of an accepted raw transaction.
TxHash(raw) == [hashOf |-> raw]

---------------------------------------------------------------------------
(* cmd_send, lines 248-284 *)

\* Truthiness of an optional atom string.
TruthyAtom(o) == o # None /\ o[1] # ""

Lower(c) ==
  CASE c = "Y" -> "y" [] c = "E" -> "e" [] c = "S" -> "s"
    [] c = "N" -> "n" [] c = "O" -> "o" [] OTHER -> c

\* str.lower
LowerStr(s) == [k \in 1..Len(s) |-> Lower(s[k])]

\* str.strip, for blanks
StripStr(s) ==
  IF \A k \in 1..Len(s) : s[k] = " " THEN <<>>
  ELSE LET f == CHOOSE k \in 1..Len(s) :
                  s[k] # " " /\ \A j \in 1..(k - 1) : s[j] = " "
           l == CHOOSE k \in 1..Len(s) :
                  s[k] # " " /\ \A j \in (k + 1)..Len(s) : s[j] = " "
       IN  SubSeq(s, f, l)

\* Line 278 as it would read if only a "no" cancelled.
ConfirmsUnlessNo(answer) ==
  LowerStr(StripStr(answer)) \notin {<<"n", "o">>, <<"n">>}

\* Line 278: confirm in ("yes", "y") after strip().lower().
Confirms(answer) ==
  LowerStr(StripStr(answer)) \in {<<"y", "e", "s">>, <<"y">>}

\* What the user may type at the prompt of line 277.
Answers ==
  {<<"y">>, <<" ", "Y", "E", "S", " ">>, <<"n", "o">>, <<>>, <<"y", "e", "s", "!">>}

\* What the user may type at the getpass prompts of lines 254 and 291.
TypedKeys == {"k1", "kbad"}

\* Decimal(x) if x else None (lines 268-270): the value, and whether
\* evaluating it raises decimal.InvalidOperation.
OptDecimal(o) == IF TruthyStr(o) THEN DecimalOfStr(o[1]) ELSE None

OptDecimalRaises(o) == TruthyStr(o) /\ Len(DecimalOfStr(o[1])) = 0

\* Line 249, make_web3 (lines 81-88): isConnected asks the node.
SendConnect ==
  /\ pc = "send_connect"
  /\ \/ /\ log' = Append(log, Rpc("isConnected", None, TRUE, TRUE))
        /\ pc' = "send_key"
        /\ UNCHANGED exc
     \/ /\ log' = Append(log, Rpc("isConnected", None, FALSE, FALSE))
        /\ Raise("ConnectionError")
  /\ UNCHANGED <<elsewhere, cmd, lib, args, loc, b, bl, tx, ret, signed, mempool>>

\* Lines 250-256: the key from the command line or the prompt, its account.
SendKey ==
  /\ pc = "send_key"
  /\ \E k \in (IF TruthyAtom(args.privkey) THEN {args.privkey[1]} ELSE TypedKeys) :
       IF AddressOfKey(k) = None
       THEN /\ Raise("KeyError")
            /\ UNCHANGED loc
       ELSE /\ loc' = [priv |-> k, from_addr |-> AddressOfKey(k)[1]]
            /\ pc' = "send_parse"
            /\ UNCHANGED exc
  /\ UNCHANGED <<elsewhere, cmd, lib, args, b, bl, tx, ret, signed, log, mempool>>

\* Lines 257-259: the amount, and the chain id from args or from the node.
SendParse ==
  /\ pc = "send_parse"
  /\ LET v == DecimalOfStr(args.value)
     IN  IF Len(v) = 0
         THEN /\ Raise("InvalidOperation")
              /\ UNCHANGED <<loc, log>>
         ELSE IF TruthyInt(args.chain_id)
         THEN /\ loc' = [value |-> v[1], chain_id |-> args.chain_id[1]] @@ loc
              /\ pc' = "send_build"
              /\ UNCHANGED <<exc, log>>
         ELSE \/ \E c \in NodeChainIds :
                   /\ loc' = [value |-> v[1], chain_id |-> c] @@ loc
                   /\ log' = Append(log, Rpc("chain_id", None, TRUE, c))
                   /\ pc' = "send_build"
                   /\ UNCHANGED exc
              \/ /\ log' = Append(log, Rpc("chain_id", None, FALSE, None))
                 /\ Raise("NodeError")
                 /\ UNCHANGED loc
  /\ UNCHANGED <<elsewhere, cmd, lib, args, b, bl, tx, ret, signed, mempool>>

\* Lines 262-273: the arguments are evaluated and the builder is entered.
SendBuild ==
  /\ pc = "send_build"
  /\ LET gp == OptDecimal(args.gas_price)
         mp == OptDecimal(args.max_priority_fee)
         mf == OptDecimal(args.max_fee)
     IN  IF \/ OptDecimalRaises(args.gas_price)
            \/ OptDecimalRaises(args.max_priority_fee)
            \/ OptDecimalRaises(args.max_fee)
         THEN /\ Raise("InvalidOperation")
              /\ UNCHANGED b
         ELSE /\ b' = Some([from_address          |-> loc.from_addr,
                            to_address            |-> args.to,
                            value_eth             |-> loc.value,
                            gas                   |-> args.gas,
                            gas_price_gwei        |-> gp,
                            max_priority_fee_gwei |-> mp,
                            max_fee_gwei          |-> mf,
                            nonce                 |-> args.nonce,
                            chain_id              |-> Some(loc.chain_id)])
              /\ pc' = "b_start"
              /\ UNCHANGED exc
  /\ UNCHANGED <<elsewhere, cmd, lib, args, loc, bl, tx, ret, signed, log, mempool>>

\* Lines 275-276: the preview of the built transaction.
SendPreview ==
  /\ pc = "send_preview"
  /\ log' = log \o <<Printed("preview_title", <<Txt("Transaction preview:")>>),
                     Printed("preview", <<Obj(ret[1])>>)>>
  /\ pc' = "send_confirm"
  /\ UNCHANGED <<elsewhere, cmd, lib, args, loc, b, bl, tx, ret, signed, exc, mempool>>

\* Lines 277-280: the prompt; anything but yes or y cancels.
SendConfirm ==
  /\ pc = "send_confirm"
  /\ \E a \in Answers :
       IF Confirms(a)
       THEN /\ log' = Append(log, [kind |-> "input", name |-> "confirm",
                                   data |-> a, ok |-> TRUE])
            /\ pc' = "send_sign"
       ELSE /\ log' = log \o <<[kind |-> "input", name |-> "confirm",
                                data |-> a, ok |-> TRUE],
                               Printed("cancelled", <<Txt("cancelled")>>)>>
            /\ pc' = "done"
  /\ UNCHANGED <<elsewhere, cmd, lib, args, loc, b, bl, tx, ret, signed, exc, mempool>>

\* Line 282 as it would read if the sender were dropped before signing.
TxToSignWithoutFrom == [k \in DOMAIN ret[1] \ {"from"} |-> ret[1][k]]

\* Line 282: the transaction handed to sign_transaction.
TxToSign == ret[1]

\* Line 282, sign_transaction (lines 185-188).
SendSign ==
  /\ pc = "send_sign"
  /\ signed' = Some(SignTransaction(loc.priv, TxToSign))
  /\ log' = log \o <<Called("sign_transaction", TxToSign),
                     Returned("sign_transaction", SignTransaction(loc.priv, TxToSign))>>
  /\ pc' = "send_broadcast"
  /\ UNCHANGED <<elsewhere, cmd, lib, args, loc, b, bl, tx, ret, exc, mempool>>

\* Line 283, send_signed_transaction (lines 191-193).
SendBroadcast ==
  /\ pc = "send_broadcast"
  /\ LET raw == RawToBroadcast(signed[1])
     IN  \/ /\ log' = Append(log, Rpc("send_raw_transaction", raw, TRUE, TxHash(raw)))
            /\ mempool' = mempool \cup {raw}
            /\ loc' = [tx_hash |-> TxHash(raw)] @@ loc
            /\ pc' = "send_sent"
            /\ UNCHANGED exc
         \/ /\ log' = Append(log, Rpc("send_raw_transaction", raw, FALSE, None))
            /\ Raise("NodeError")
            /\ UNCHANGED <<mempool, loc>>
  /\ UNCHANGED <<elsewhere, cmd, lib, args, b, bl, tx, ret, signed>>

\* Line 284.
SendSent ==
  /\ pc = "send_sent"
  /\ log' = Append(log, Printed("sent", <<Txt("Sent. tx hash:"), Obj(loc.tx_hash)>>))
  /\ pc' = "done"
  /\ UNCHANGED <<elsewhere, cmd, lib, args, loc, b, bl, tx, ret, signed, exc, mempool>>

\* Lines 358-359 of main: every exception of a command is printed.
MainExcept ==
  /\ pc = "main_except"
  /\ log' = Append(log, Printed("error", <<Err(exc[1])>>))
  /\ pc' = "done"
  /\ UNCHANGED <<elsewhere, cmd, lib, args, loc, b, bl, tx, ret, signed, exc, mempool>>

---------------------------------------------------------------------------
(* Mnemonics and HD derivation, lines 52-75 *)

\* Number of addresses cmd_generate derives (line 222).
GenerateCount == 3

\* Largest --count given to the derive command.
MaxCount == 2

ValidMnemonics == {"m12", "m24"}

\* The installed eth_account: whether Account.from_mnemonic is usable
\* (its HD wallet features are off unless enabled, which this file never
\* does), and whether the object Account.sign_message returns has the
\* attribute address that line 203 reads (the library documents
\* messageHash, r, s, v and signature).
Libs == [hdwallet : BOOLEAN, signed_address : BOOLEAN]

\* Mnemonic.generate(strength), lines 52-55: 12 words for 128 bits, 24 for 256.
GeneratedMnemonic(strength) == IF strength = 128 THEN "m12" ELSE "m24"

\* Mnemonic.to_seed(mnemonic, passphrase), lines 58-60: PBKDF2 over the
\* normalized mnemonic string, salted with "mnemonic" + passphrase.  The
\* library neither looks the words up nor verifies the checksum here.
MnemonicToSeed(m, pass) == [pbkdf2 |-> m, salt |-> <<"mnemonic", pass>>]

\* A caller's mnemonic_to_seed(mnemonic, passphrase), lines 58-60.
CallMnemonicToSeed ==
  /\ pc = "toseed"
  /\ loc' = [seed |-> MnemonicToSeed(args.mnemonic, args.passphrase)]
  /\ log' = log \o <<Called("mnemonic_to_seed", args.mnemonic),
                     Returned("mnemonic_to_seed",
                              MnemonicToSeed(args.mnemonic, args.passphrase))>>
  /\ pc' = "done"
  /\ UNCHANGED <<elsewhere, cmd, lib, args, b, bl, tx, ret, signed, exc, mempool>>

\* Account.from_mnemonic at the path m/44'/60'/0'/0/index: the key is a
\* function of the mnemonic, the index and the passphrase.
HdKey(m, index, pass) == [mnemonic |-> m, index |-> index, passphrase |-> pass]
HdAddress(m, index, pass) == [addressOf |-> HdKey(m, index, pass)]

\* args.passphrase or "" (lines 223, 233)
PassOrEmpty(o) == IF TruthyAtom(o) THEN o[1] ELSE ""

\* Lines 70-72: (address, private key) when Account.from_mnemonic returns.
DeriveAccount(m, index, pass) == <<HdAddress(m, index, pass), HdKey(m, index, pass)>>

\* Line 71: whether Account.from_mnemonic returns an account.
FromMnemonicReturns(m) == m \in ValidMnemonics /\ lib.hdwallet

\* Lines 73-75: Account.from_mnemonic raises for a malformed mnemonic or when
\* the library refuses the call; every exception is turned into RuntimeError.
DeriveFailed ==
  /\ Raise("RuntimeError")
  /\ UNCHANGED <<loc, log>>

---------------------------------------------------------------------------
(* cmd_generate, lines 215-225 *)

\* Line 224.
GenerateLine(idx, addr, pk) ==
  Printed("generate_line", <<Num(idx), Adr(addr), Txt("(private key HIDDEN)")>>)

\* Lines 216-221.
GenerateStart ==
  /\ pc = "gen_start"
  /\ LET m == GeneratedMnemonic(IF args.long THEN 256 ELSE 128)
     IN  /\ loc' = [mnemonic |-> m, i |-> 0]
         /\ log' = log \o <<Printed("mnemonic_title", <<Txt("=== MNEMONIC (KEEP IT SECRET!) ===")>>),
                            Printed("mnemonic", <<[t |-> "mnemonic", v |-> m]>>),
                            Printed("blank", <<Txt("")>>),
                            Printed("deriving", <<Txt("Deriving first 3 addresses:")>>)>>
  /\ pc' = "gen_loop"
  /\ UNCHANGED <<elsewhere, cmd, lib, args, b, bl, tx, ret, signed, exc, mempool>>

\* Lines 222-224, one iteration.
GenerateLoop ==
  /\ pc = "gen_loop"
  /\ loc.i < GenerateCount
  /\ IF FromMnemonicReturns(loc.mnemonic)
     THEN /\ LET acct == DeriveAccount(loc.mnemonic, loc.i, PassOrEmpty(args.passphrase))
             IN  log' = Append(log, GenerateLine(loc.i, acct[1], acct[2]))
          /\ loc' = [loc EXCEPT !.i = @ + 1]
          /\ UNCHANGED <<pc, exc>>
     ELSE DeriveFailed
  /\ UNCHANGED <<elsewhere, cmd, lib, args, b, bl, tx, ret, signed, mempool>>

\* Line 225.
GenerateEnd ==
  /\ pc = "gen_loop"
  /\ loc.i = GenerateCount
  /\ log' = Append(log, Printed("keep_safe", <<Txt("keep the mnemonic safe")>>))
  /\ pc' = "done"
  /\ UNCHANGED <<elsewhere, cmd, lib, args, loc, b, bl, tx, ret, signed, exc, mempool>>

---------------------------------------------------------------------------
(* cmd_derive, lines 228-234 *)

\* Line 234.
DeriveLine(idx, addr, pk) ==
  Printed("derive_line", <<Num(idx), Adr(addr), PrivKey(pk)>>)

\* What the user may type at the getpass prompt of line 231.
TypedMnemonics == {"m12", "mbad"}

\* Lines 229-231.
DeriveStart ==
  /\ pc = "derive_start"
  /\ \E m \in (IF TruthyAtom(args.mnemonic) THEN {args.mnemonic[1]} ELSE TypedMnemonics) :
       loc' = [mnemonic |-> m, i |-> 0]
  /\ pc' = "derive_loop"
  /\ UNCHANGED <<elsewhere, cmd, lib, args, b, bl, tx, ret, signed, exc, log, mempool>>

\* Lines 232-234, one iteration.
DeriveLoop ==
  /\ pc = "derive_loop"
  /\ loc.i < args.count
  /\ IF FromMnemonicReturns(loc.mnemonic)
     THEN /\ LET acct == DeriveAccount(loc.mnemonic, loc.i, PassOrEmpty(args.passphrase))
             IN  log' = Append(log, DeriveLine(loc.i, acct[1], acct[2]))
          /\ loc' = [loc EXCEPT !.i = @ + 1]
          /\ UNCHANGED <<pc, exc>>
     ELSE DeriveFailed
  /\ UNCHANGED <<elsewhere, cmd, lib, args, b, bl, tx, ret, signed, mempool>>

\* Line 232: the range is exhausted.
DeriveEnd ==
  /\ pc = "derive_loop"
  /\ loc.i >= args.count
  /\ pc' = "done"
  /\ UNCHANGED <<elsewhere, cmd, lib, args, loc, b, bl, tx, ret, signed, exc, log, mempool>>

---------------------------------------------------------------------------
(* Messages: sign_message, verify_message, cmd_sign_msg, cmd_verify_msg *)

\* encode_defunct(text=m), lines 201 and 207: the version byte "E", the
\* header "thereum Signed Message:\n" followed by the length of the text,
\* and the text.  A text is a sequence of characters.
EncodeDefunct(m) ==
  [version |-> "E",
   header  |-> [text |-> "thereum Signed Message:\n", length |-> Len(m)],
   body    |-> m]

\* Line 207 as it would read if the length were left out of the header.
VerifyEncodingNoLength(m) ==
  [version |-> "E",
   header  |-> [text |-> "thereum Signed Message:\n", length |-> 0],
   body    |-> m]

\* Line 207: the encoding verify_message recovers from.
VerifyEncoding(m) == EncodeDefunct(m)

\* The signature of the encoded message sm by the account at address a.
Signature(a, sm) == [signer |-> a, msg |-> sm, wellformed |-> TRUE]

\* Lines 200-203 when they return: the key is valid, and the signed object
\* has the attribute address.
SignMessage(k, m) ==
  [message |-> m, signature |-> Signature(AddressOfKey(k)[1], EncodeDefunct(m)),
   address |-> AddressOfKey(k)[1]]

\* The exception sign_message raises for key k, or None (lines 200-203).
SignMessageRaises(k) ==
  IF AddressOfKey(k) = None THEN Some("KeyError")
  ELSE IF ~lib.signed_address THEN Some("AttributeError")
  ELSE None

\* Lines 206-209, recover_message on a well-formed signature: the signer when
\* the encoded message is the signed one, otherwise an address nobody holds.
VerifyMessage(sig, m) == IF sig.msg = VerifyEncoding(m) THEN sig.signer ELSE "A?"

\* Lines 287-294.
SignMsg ==
  /\ pc = "signmsg"
  /\ \E k \in (IF TruthyAtom(args.privkey) THEN {args.privkey[1]} ELSE TypedKeys) :
       IF SignMessageRaises(k) # None
       THEN /\ Raise(SignMessageRaises(k)[1])
            /\ UNCHANGED <<loc, log>>
       ELSE /\ loc' = [priv |-> k, res |-> SignMessage(k, args.message)]
            /\ log' = log \o <<Printed("signed_title", <<Txt("Signed message:")>>),
                               Printed("signed", <<Obj(SignMessage(k, args.message))>>)>>
            /\ pc' = "done"
            /\ UNCHANGED exc
  /\ UNCHANGED <<elsewhere, cmd, lib, args, b, bl, tx, ret, signed, mempool>>

\* Line 298, make_web3 (lines 81-88).
VerifyConnect ==
  /\ pc = "verify_connect"
  /\ \/ /\ log' = Append(log, Rpc("isConnected", None, TRUE, TRUE))
        /\ pc' = "verify"
        /\ UNCHANGED exc
     \/ /\ log' = Append(log, Rpc("isConnected", None, FALSE, FALSE))
        /\ Raise("ConnectionError")
  /\ UNCHANGED <<elsewhere, cmd, lib, args, loc, b, bl, tx, ret, signed, mempool>>

\* Lines 299-300.
VerifyMsg ==
  /\ pc = "verify"
  /\ IF ~args.signature.wellformed
     THEN /\ Raise("SignatureError")
          /\ UNCHANGED <<loc, log>>
     ELSE /\ loc' = [signer |-> VerifyMessage(args.signature, args.message)]
          /\ log' = Append(log, Printed("recovered",
                       <<Txt("Recovered signer:"),
                         Adr(VerifyMessage(args.signature, args.message))>>))
          /\ pc' = "done"
          /\ UNCHANGED exc
  /\ UNCHANGED <<elsewhere, cmd, lib, args, b, bl, tx, ret, signed, mempool>>

\* A caller signs a text and has the signature verified.
\* sign_message(k, m), lines 199-203.
CallSignMessage ==
  /\ pc = "sv_sign"
  /\ IF SignMessageRaises(args.privkey) # None
     THEN /\ Raise(SignMessageRaises(args.privkey)[1])
          /\ UNCHANGED <<loc, log>>
     ELSE /\ loc' = [res |-> SignMessage(args.privkey, args.message)]
          /\ log' = log \o <<Called("sign_message", args.message),
                             Returned("sign_message", SignMessage(args.privkey, args.message))>>
          /\ pc' = "sv_verify"
          /\ UNCHANGED exc
  /\ UNCHANGED <<elsewhere, cmd, lib, args, b, bl, tx, ret, signed, mempool>>

\* verify_message(res["signature"], m, w3), lines 206-209.
CallVerifyMessage ==
  /\ pc = "sv_verify"
  /\ loc' = [signer |-> VerifyMessage(loc.res.signature, args.message)] @@ loc
  /\ log' = log \o <<Called("verify_message", args.message),
                     Returned("verify_message",
                              VerifyMessage(loc.res.signature, args.message))>>
  /\ pc' = "done"
  /\ UNCHANGED <<elsewhere, cmd, lib, args, b, bl, tx, ret, signed, exc, mempool>>

---------------------------------------------------------------------------
(* cmd_balance, lines 237-245, with get_eth_balance and get_erc20_balance *)

\* A call of a view function of the token contract (eth_call).
ContractCall(token, fn, fnArgs, ok, reply) ==
  Rpc("contract_call", [address |-> token, fn |-> fn, args |-> fnArgs], ok, reply)

\* Line 242: if args.erc20 (None and the empty list are both falsy).
HasTokens(a) == a.erc20 # None /\ Len(a.erc20[1]) > 0

\* Line 238, make_web3 (lines 81-88).
BalanceConnect ==
  /\ pc = "bal_connect"
  /\ \/ /\ log' = Append(log, Rpc("isConnected", None, TRUE, TRUE))
        /\ pc' = "bal_eth"
        /\ UNCHANGED exc
     \/ /\ log' = Append(log, Rpc("isConnected", None, FALSE, FALSE))
        /\ Raise("ConnectionError")
  /\ UNCHANGED <<elsewhere, cmd, lib, args, loc, b, bl, tx, ret, signed, mempool>>

\* Lines 239-241: the ETH balance, wei_to_eth (lines 41-42).
BalanceEth ==
  /\ pc = "bal_eth"
  /\ LET ac == ToChecksumAddress(args.address)
     IN  IF ac = None
         THEN /\ Raise("ValueError")
              /\ UNCHANGED <<loc, log>>
         ELSE \/ \E w \in NodeBalances :
                   /\ loc' = [addr |-> ac[1], i |-> 0]
                   /\ log' = log \o
                        <<Rpc("get_balance", ac[1], TRUE, w),
                          Printed("eth_balance",
                                  <<Adr(ac[1]), [t |-> "decimal", v |-> DecimalDivPow10(w, 18)]>>)>>
                   /\ pc' = "bal_tokens"
                   /\ UNCHANGED exc
              \/ /\ log' = Append(log, Rpc("get_balance", ac[1], FALSE, None))
                 /\ Raise("NodeError")
                 /\ UNCHANGED loc
  /\ UNCHANGED <<elsewhere, cmd, lib, args, b, bl, tx, ret, signed, mempool>>

\* Lines 243-245, one iteration, get_erc20_balance (lines 122-134): a failing
\* balanceOf raises; a failing decimals or symbol falls back to 18 and "".
BalanceToken ==
  /\ pc = "bal_tokens"
  /\ HasTokens(args)
  /\ loc.i < Len(args.erc20[1])
  /\ LET t  == args.erc20[1][loc.i + 1]
         tc == ToChecksumAddress(t)
     IN  IF tc = None
         THEN /\ Raise("ValueError")
              /\ UNCHANGED <<loc, log>>
         ELSE \/ /\ log' = Append(log, ContractCall(tc[1], "balanceOf", <<loc.addr>>, FALSE, None))
                 /\ Raise("NodeError")
                 /\ UNCHANGED loc
              \/ \E raw \in NodeBalances, d \in NodeDecimals \cup {-1},
                    sy \in NodeSymbols \cup {"?"} :
                   LET decimals == IF d = -1 THEN 18 ELSE d
                       symbol   == IF sy = "?" THEN "" ELSE sy
                   IN  /\ log' = log \o
                            <<ContractCall(tc[1], "balanceOf", <<loc.addr>>, TRUE, raw),
                              ContractCall(tc[1], "decimals", <<>>, d # -1,
                                           IF d = -1 THEN None ELSE d),
                              ContractCall(tc[1], "symbol", <<>>, sy # "?",
                                           IF sy = "?" THEN None ELSE sy),
                              Printed("token_balance",
                                      <<Txt(IF symbol # "" THEN symbol ELSE t),
                                        [t |-> "decimal", v |-> DecimalDivPow10(raw, decimals)],
                                        Num(decimals)>>)>>
                       /\ loc' = [loc EXCEPT !.i = @ + 1]
                       /\ UNCHANGED <<pc, exc>>
  /\ UNCHANGED <<elsewhere, cmd, lib, args, b, bl, tx, ret, signed, mempool>>

\* Lines 242-243: no token list, or the list is exhausted.
BalanceEnd ==
  /\ pc = "bal_tokens"
  /\ IF HasTokens(args) THEN loc.i >= Len(args.erc20[1]) ELSE TRUE
  /\ pc' = "done"
  /\ UNCHANGED <<elsewhere, cmd, lib, args, loc, b, bl, tx, ret, signed, exc, log, mempool>>

---------------------------------------------------------------------------
(* The runs *)

\* Amounts in ETH as typed: 1.5, 0, one wei, and 10^10 ETH plus one wei.
OneAndHalf == <<"1", ".", "5">>
OneWei == <<"0", ".">> \o Rep("0", 17) \o <<"1">>
HugePlusOneWei == <<"1">> \o Rep("0", 10) \o <<".">> \o Rep("0", 17) \o <<"1">>
MinusOne == <<"-", "1">>

EthStrs == {OneAndHalf, <<"0">>, OneWei, HugePlusOneWei, MinusOne}

\* Amounts in Gwei as typed.
GweiStrs == {<<"2", ".", "5">>, <<"0">>}

OptDecimalsOf(strs) == {None} \cup {DecimalOfStr(x) : x \in strs}

\* A direct call of build_eth_transaction.
BuildCalls ==
  [from_address          : {"a1"},
   to_address            : {"a2", "bad"},
   value_eth             : {DecimalOfStr(x)[1] : x \in EthStrs},
   gas                   : {None, Some(0), Some(50000)},
   gas_price_gwei        : OptDecimalsOf(GweiStrs),
   max_priority_fee_gwei : OptDecimalsOf({<<"2">>}),
   max_fee_gwei          : OptDecimalsOf({<<"3">>}),
   nonce                 : {None, Some(0), Some(7)},
   chain_id              : {None, Some(0), Some(1)}]

\* The send command's arguments (lines 325-335).
SendArgs ==
  [to               : {"a2"},
   value            : {OneAndHalf, HugePlusOneWei, <<"a", "b", "c">>},
   privkey          : {None, Some("k1"), Some("kbad")},
   gas              : {None, Some(50000)},
   gas_price        : {None, Some(<<>>), Some(<<"2", ".", "5">>)},
   max_fee          : {None, Some(<<"3">>)},
   max_priority_fee : {None, Some(<<"2">>)},
   nonce            : {None, Some(0)},
   chain_id         : {None, Some(0), Some(1)}]

GenerateArgs == [long : BOOLEAN, passphrase : {None, Some("pw")}]

DeriveArgs ==
  [mnemonic : {None, Some("m12"), Some("mbad")}, count : 0..MaxCount,
   passphrase : {None, Some("pw")}]

\* Texts to sign: the empty one and "hi".
Messages == {<<>>, <<"h", "i">>}

SignMsgArgs == [privkey : {None, Some("k2"), Some("kbad")}, message : Messages]

\* A caller's sign_message followed by verify_message.
SignVerifyArgs == [privkey : ValidKeys \cup {"kbad"}, message : Messages]

VerifyMsgArgs ==
  [signature : {Signature("A1", EncodeDefunct(<<"h", "i">>)),
                Signature("A2", EncodeDefunct(<<>>)),
                [signer |-> "", msg |-> EncodeDefunct(<<>>), wellformed |-> FALSE]},
   message : Messages]

\* The balance command's arguments (lines 320-323).
BalanceArgs ==
  [address : {"a1", "bad"},
   erc20   : {None, Some(<<>>), Some(<<"t1">>), Some(<<"t1", "bad">>)}]

\* A caller's mnemonic_to_seed.
ToSeedArgs == [mnemonic : ValidMnemonics \cup {"mbad"}, passphrase : {"", "pw"}]

\* The library variants that make a difference to command c.
LibsFor(c) ==
  {l \in Libs :
     /\ c \notin {"generate", "derive"} => l.hdwallet
     /\ c \notin {"signmsg", "signverify"} => l.signed_address}

\* game_2048.py is not running.
NoGame ==
  /\ game = <<>> /\ attrs = {} /\ shown = <<>> /\ gpc = "off" /\ gexc = None
  /\ moves = 0 /\ premove = None /\ last = <<>>

Idle ==
  /\ calls = <<>>
  /\ NoGame
  /\ lib \in LibsFor(cmd)
  /\ loc = <<>> /\ bl = <<>> /\ tx = None /\ ret = None /\ signed = None
  /\ exc = None /\ log = <<>> /\ mempool = {}

Init ==
  /\ cmd \in {"build", "send", "generate", "derive", "signmsg", "verifymsg",
              "balance", "signverify", "toseed"}
  /\ Idle
  /\ \/ cmd = "build" /\ args = <<>> /\ b \in {Some(c) : c \in BuildCalls} /\ pc = "b_start"
     \/ cmd = "send" /\ args \in SendArgs /\ b = None /\ pc = "send_connect"
     \/ cmd = "generate" /\ args \in GenerateArgs /\ b = None /\ pc = "gen_start"
     \/ cmd = "derive" /\ args \in DeriveArgs /\ b = None /\ pc = "derive_start"
     \/ cmd = "signmsg" /\ args \in SignMsgArgs /\ b = None /\ pc = "signmsg"
     \/ cmd = "verifymsg" /\ args \in VerifyMsgArgs /\ b = None /\ pc = "verify_connect"
     \/ cmd = "balance" /\ args \in BalanceArgs /\ b = None /\ pc = "bal_connect"
     \/ cmd = "signverify" /\ args \in SignVerifyArgs /\ b = None /\ pc = "sv_sign"
     \/ cmd = "toseed" /\ args \in ToSeedArgs /\ b = None /\ pc = "toseed"

Next ==
  \/ BuildStart \/ BuildTx \/ BuildFee \/ BuildGas \/ BuildReturn
  \/ SendConnect \/ SendKey \/ SendParse \/ SendBuild \/ SendPreview
  \/ SendConfirm \/ SendSign \/ SendBroadcast \/ SendSent
  \/ GenerateStart \/ GenerateLoop \/ GenerateEnd
  \/ DeriveStart \/ DeriveLoop \/ DeriveEnd
  \/ SignMsg \/ VerifyConnect \/ VerifyMsg
  \/ BalanceConnect \/ BalanceEth \/ BalanceToken \/ BalanceEnd
  \/ CallSignMessage \/ CallVerifyMessage \/ CallMnemonicToSeed
  \/ MainExcept

Spec == Init /\ [][Next]_vars

---------------------------------------------------------------------------
(* Concurrent callers of derive_account_from_mnemonic, build_eth_transaction,
   sign_transaction and sign_message.  Each call has its own frame: the
   functions read and write only their parameters and locals, and the
   module has no variable they assign.  A call is suspended only at the
   node calls of build_eth_transaction. *)

NumCallers == 2

Callers == 1..NumCallers

\* The frame of a call that is about to start.
Frame(fn, a) ==
  [fn |-> fn, a |-> a, pc |-> "start", tx |-> None, out |-> None, exc |-> None,
   replies |-> <<>>]

Terminated(f) == f.pc \in {"done", "raised"}

\* raise inside a call.
Failed(f, e) == [f EXCEPT !.pc = "raised", !.exc = Some(e)]

\* return inside a call.
Finished(f, v) == [f EXCEPT !.pc = "done", !.out = Some(v)]

\* The node call the next statement of the call makes, if any
\* (lines 151, 158, 173, 167 and 178).
Asks(f) ==
  IF f.fn # "build" \/ Terminated(f) THEN "none"
  ELSE CASE f.pc = "start" ->
              IF \/ ToChecksumAddress(f.a.from_address) = None
                 \/ ToChecksumAddress(f.a.to_address) = None
                 \/ f.a.nonce # None
              THEN "none" ELSE "get_transaction_count"
         [] f.pc = "tx"  -> IF ChainIdTaken(f.a) THEN "none" ELSE "chain_id"
         [] f.pc = "fee" -> IF FeeMarketChosen(f.a) \/ f.a.gas_price_gwei # None
                            THEN "none" ELSE "gas_price"
         [] f.pc = "gas" -> IF f.a.gas # None THEN "none" ELSE "estimate_gas"

\* What the node may answer: a value, or a failure.
NodeReply(v) == [ok |-> TRUE, v |-> v]

NodeFailure == [ok |-> FALSE]

Replies(method) ==
  {NodeFailure} \cup
    CASE method = "get_transaction_count" -> {NodeReply(n) : n \in NodeNonces}
      [] method = "chain_id"              -> {NodeReply(c) : c \in NodeChainIds}
      [] method = "gas_price"             -> {NodeReply(p) : p \in NodeGasPrices}
      [] method = "estimate_gas"          -> {NodeReply(g) : g \in NodeGasEstimates}

\* build_eth_transaction, lines 147-182, from one suspension point to the
\* next; r is the node's reply when the statement asks the node.
StepBuild(f, r) ==
  IF Asks(f) # "none" /\ ~r[1].ok THEN Failed(f, "NodeError")
  ELSE CASE f.pc = "start" ->
              LET fc == ToChecksumAddress(f.a.from_address)
                  tc == ToChecksumAddress(f.a.to_address)
              IN  IF fc = None \/ tc = None THEN Failed(f, "ValueError")
                  ELSE [f EXCEPT !.pc = "tx",
                                 !.tx = Some([from  |-> fc[1], to |-> tc[1],
                                              nonce |-> IF f.a.nonce # None
                                                        THEN f.a.nonce[1]
                                                        ELSE r[1].v])]
         [] f.pc = "tx" ->
              [f EXCEPT !.pc = "fee",
                        !.tx = Some([value   |-> ScaleToInt(f.a.value_eth, 18),
                                     chainId |-> IF ChainIdTaken(f.a)
                                                 THEN f.a.chain_id[1]
                                                 ELSE r[1].v] @@ f.tx[1])]
         [] f.pc = "fee" ->
              [f EXCEPT !.pc = "gas",
                        !.tx = Some((IF FeeMarketChosen(f.a)
                                     THEN FeeMarketFields(f.a)
                                     ELSE [gasPrice |->
                                             LegacyGasPrice(f.a, IF r = None THEN None
                                                                 ELSE r[1].v)])
                                    @@ f.tx[1])]
         [] f.pc = "gas" ->
              Finished(f, [gas |-> IF f.a.gas # None THEN f.a.gas[1] ELSE r[1].v]
                            @@ f.tx[1])

\* One statement sequence of a call that runs without suspension.
Step(f, r) ==
  CASE f.fn = "build" -> StepBuild(f, r)
    [] f.fn = "derive" ->
         \* lines 70-75
         IF FromMnemonicReturns(f.a.mnemonic)
         THEN Finished(f, DeriveAccount(f.a.mnemonic, f.a.index, f.a.passphrase))
         ELSE Failed(f, "RuntimeError")
    [] f.fn = "sign_transaction" ->
         \* lines 186-188
         IF AddressOfKey(f.a.key) = None THEN Failed(f, "KeyError")
         ELSE Finished(f, SignTransaction(f.a.key, f.a.tx))
    [] f.fn = "sign_message" ->
         \* lines 200-203
         IF SignMessageRaises(f.a.key) # None
         THEN Failed(f, SignMessageRaises(f.a.key)[1])
         ELSE Finished(f, SignMessage(f.a.key, f.a.message))

\* The frame as a module-level tx dict shared by all calls would make it.
FrameWithSharedTx(c) ==
  [calls[c] EXCEPT !.tx = IF @ # None /\ calls[1].tx # None THEN calls[1].tx ELSE @]

\* The frame the statements of caller c's call work on: its own.
FrameOf(c) == calls[c]

\* Caller c's call runs to its next suspension point or to its end.
CallStep(c) ==
  /\ pc = "calls"
  /\ ~Terminated(calls[c])
  /\ IF Asks(FrameOf(c)) = "none"
     THEN calls' = [calls EXCEPT ![c] = Step(FrameOf(c), None)]
     ELSE \E r \in Replies(Asks(FrameOf(c))) :
            calls' = [calls EXCEPT
                        ![c] = [Step(FrameOf(c), Some(r)) EXCEPT !.replies = Append(@, r)]]
  /\ UNCHANGED <<cmd, args, pc, loc, b, bl, tx, ret, signed, exc, log, mempool, lib,
                 gameVars>>

\* A record build_eth_transaction's callers pass to sign_transaction.
SampleTx ==
  [from |-> "A1", to |-> "A2", value |-> BigInt(FALSE, <<1>>), nonce |-> 0,
   chainId |-> 1, gasPrice |-> BigInt(FALSE, Pow10(9)), gas |-> 21000]

\* The calls a caller may make.
CallArgs(fn) ==
  CASE fn = "derive" ->
         [mnemonic : {"m12", "mbad"}, index : {0, 1}, passphrase : {""}]
    [] fn = "sign_transaction" -> [key : {"k1"}, tx : {SampleTx}]
    [] fn = "sign_message" -> [key : {"k2"}, message : {<<"h", "i">>}]
    [] fn = "build" ->
         [from_address          : {"a1"},
          to_address            : {"a2"},
          value_eth             : {DecimalOfStr(OneAndHalf)[1]},
          gas                   : {None},
          gas_price_gwei        : {None},
          max_priority_fee_gwei : {None},
          max_fee_gwei          : {None},
          nonce                 : {None, Some(7)},
          chain_id              : {None}]

Functions == {"derive", "sign_transaction", "sign_message", "build"}

NewCalls == UNION {{Frame(fn, a) : a \in CallArgs(fn)} : fn \in Functions}

\* Caller c's call has returned or raised, and the caller makes another.
CallNext(c) ==
  /\ pc = "calls"
  /\ Terminated(calls[c])
  /\ \E f \in NewCalls : calls' = [calls EXCEPT ![c] = f]
  /\ UNCHANGED <<cmd, args, pc, loc, b, bl, tx, ret, signed, exc, log, mempool, lib,
                 gameVars>>

InitCalls ==
  /\ cmd = "calls" /\ args = <<>> /\ b = None /\ pc = "calls"
  /\ loc = <<>> /\ bl = <<>> /\ tx = None /\ ret = None /\ signed = None
  /\ exc = None /\ log = <<>> /\ mempool = {}
  /\ lib \in Libs
  /\ NoGame
  /\ calls \in [Callers -> NewCalls]

NextCalls == \E c \in Callers : CallStep(c) \/ CallNext(c)

SpecCalls == InitCalls /\ [][NextCalls]_vars

---------------------------------------------------------------------------
(* game_2048.py: the grid operations, lines 93-177 *)

\* Line 9.
GRID_LEN == 4

Cells == (1..GRID_LEN) \X (1..GRID_LEN)

\* Line 57.
EmptyGrid == [i \in 1..GRID_LEN |-> [j \in 1..GRID_LEN |-> 0]]

\* add_random_tile, lines 93-99: every grid it may leave; the grid itself
\* when no cell is empty.
AddRandomTile(g) ==
  LET empty == {c \in Cells : g[c[1]][c[2]] = 0}
  IN  IF empty = {} THEN {g}
      ELSE {[g EXCEPT ![c[1]][c[2]] = v] : c \in empty, v \in {2, 4}}

\* compress, lines 103-107.
Compress(row) ==
  LET new_row == SelectSeq(row, LAMBDA num : num # 0)
  IN  new_row \o [k \in 1..(Len(row) - Len(new_row)) |-> 0]

\* merge, lines 110-118: the loop from index i on (1-based), with the row as
\* the earlier iterations left it.
RECURSIVE MergeFrom(_, _, _)
MergeFrom(row, i, score_gain) ==
  IF i > Len(row) - 1 THEN [row |-> row, gain |-> score_gain]
  ELSE IF row[i] # 0 /\ row[i] = row[i + 1]
       THEN MergeFrom([row EXCEPT ![i] = 2 * row[i], ![i + 1] = 0], i + 1,
                      score_gain + 2 * row[i])
       ELSE MergeFrom(row, i + 1, score_gain)

Merge(row) == MergeFrom(row, 1, 0)

\* A variant of the row computation that merges a second time, so that a
\* tile produced by a merge merges again.
FinalRowMergingTwice(row) == Compress(Merge(Compress(Merge(Compress(row)).row)).row)

\* Lines 125-127: one row of move_left.
FinalRow(row) == Compress(Merge(Compress(row)).row)

RECURSIVE SumSeq(_)
SumSeq(xs) == IF Len(xs) = 0 THEN 0 ELSE Head(xs) + SumSeq(Tail(xs))

\* transpose, lines 158-159.
Transpose(g) == [i \in 1..GRID_LEN |-> [j \in 1..GRID_LEN |-> g[j][i]]]

\* reflect_horizontal, lines 161-162.
ReflectHorizontal(g) ==
  [i \in 1..GRID_LEN |-> [j \in 1..GRID_LEN |-> g[i][GRID_LEN + 1 - j]]]

\* move_left, lines 120-138, on the object gm: every outcome, with the value
\* returned.
MoveLeft(gm) ==
  LET new_grid   == [i \in 1..GRID_LEN |-> FinalRow(gm.grid[i])]
      total_gain == SumSeq([i \in 1..GRID_LEN |-> Merge(Compress(gm.grid[i])).gain])
      moved      == \E i \in 1..GRID_LEN : new_grid[i] # gm.grid[i]
  IN  IF moved
      THEN {[moved |-> TRUE,
             self  |-> [grid           |-> g,
                        previous_grid  |-> Some(gm.grid),
                        previous_score |-> gm.score,
                        score          |-> gm.score + total_gain]] :
              g \in AddRandomTile(new_grid)}
      ELSE {[moved |-> FALSE, self |-> gm]}

\* The object with its grid reflected, or transposed.
Reflected(gm) == [gm EXCEPT !.grid = ReflectHorizontal(@)]

Transposed(gm) == [gm EXCEPT !.grid = Transpose(@)]

\* move_right, lines 140-144.
MoveRight(gm) ==
  {[moved |-> o.moved, self |-> Reflected(o.self)] : o \in MoveLeft(Reflected(gm))}

\* move_up, lines 146-150.
MoveUp(gm) ==
  {[moved |-> o.moved, self |-> Transposed(o.self)] : o \in MoveLeft(Transposed(gm))}

\* move_down, lines 152-156.
MoveDown(gm) ==
  {[moved |-> o.moved, self |-> Transposed(o.self)] : o \in MoveRight(Transposed(gm))}

\* A variant of can_move that looks for an empty cell only.
CanMoveWithEmptyCell(g) == \E c \in Cells : g[c[1]][c[2]] = 0

\* can_move, lines 164-177.
CanMove(g) ==
  \/ \E c \in Cells : g[c[1]][c[2]] = 0
  \/ \E i \in 1..GRID_LEN, j \in 1..(GRID_LEN - 1) : g[i][j] = g[i][j + 1]
  \/ \E j \in 1..GRID_LEN, i \in 1..(GRID_LEN - 1) : g[i][j] = g[i + 1][j]

\* reset_game, lines 56-62: the fields it may leave.
ResetGame ==
  {[grid |-> g2, previous_grid |-> None, previous_score |-> 0, score |-> 0] :
     g2 \in UNION {AddRandomTile(g1) : g1 \in AddRandomTile(EmptyGrid)}}

---------------------------------------------------------------------------
(* game_2048.py: construction, lines 33-54 *)

\* The wallet tool and the concurrent callers are not running.
OnlyGame ==
  /\ cmd = "game_2048" /\ args = <<>> /\ b = None /\ pc = "off"
  /\ loc = <<>> /\ bl = <<>> /\ tx = None /\ ret = None /\ signed = None
  /\ exc = None /\ log = <<>> /\ mempool = {}
  /\ lib \in LibsFor("game_2048")
  /\ calls = <<>>

notGame == <<cmd, args, pc, loc, b, bl, tx, ret, signed, exc, log, mempool, lib, calls>>

\* The event recorded in last for a key of a direction: the key, the value
\* the move method returned, and the fields the handler found.
Event(op, moved) ==
  [op |-> op, moved |-> moved, grid |-> game.grid, score |-> game.score,
   previous_grid |-> game.previous_grid, previous_score |-> game.previous_score]

\* Line 36: reset_game (lines 56-62).
InitReset ==
  /\ gpc = "init_reset"
  /\ game' \in ResetGame
  /\ attrs' = attrs \cup {"grid", "previous_grid", "previous_score", "score"}
  /\ gpc' = "init_widgets"
  /\ UNCHANGED <<notGame, shown, gexc, moves, premove, last>>

\* Lines 38-41: the frame and, in init_grid (lines 68-82), sixteen labels
\* with an empty text.
InitWidgets ==
  /\ gpc = "init_widgets"
  /\ attrs' = attrs \cup {"main_grid", "cells"}
  /\ shown' = [cells |-> EmptyGrid, score |-> None, popups |-> 0]
  /\ gpc' = "init_update"
  /\ UNCHANGED <<notGame, game, gexc, moves, premove, last>>

\* Line 42: update_grid_cells (lines 84-91) configures the sixteen labels and
\* then reads self.score_label, which is assigned at line 46 only: the read
\* raises AttributeError, which leaves __init__ and main (lines 228-229).
\* Lines 45-54 and the main loop are not reached.
InitUpdate ==
  /\ gpc = "init_update"
  /\ IF "score_label" \in attrs
     THEN /\ shown' = [shown EXCEPT !.cells = game.grid, !.score = Some(game.score)]
          /\ gpc' = "init_label"
          /\ UNCHANGED gexc
     ELSE /\ shown' = [shown EXCEPT !.cells = game.grid]
          /\ gexc' = Some("AttributeError")
          /\ gpc' = "crashed"
  /\ UNCHANGED <<notGame, game, attrs, moves, premove, last>>

---------------------------------------------------------------------------
(* game_2048.py: the handlers, lines 64-66 and 179-215, on a game whose
   widgets all exist *)

\* Largest number of moves and new games in one run.
MaxMoves == 1

\* The attributes __init__ assigns.
AllAttrs ==
  {"master", "grid", "previous_grid", "previous_score", "score", "main_grid",
   "cells", "score_label"}

\* update_grid_cells, lines 84-91, and game_over (lines 202-208) when the
\* handler calls it.
UpdateGridCells(gm, over) ==
  [cells |-> gm.grid, score |-> Some(gm.score),
   popups |-> shown.popups + (IF over THEN 1 ELSE 0)]

\* key_handler, lines 179-200, for a key of one direction; outcomes is what
\* the move method of that direction may do.
HandleMove(key, outcomes) ==
  /\ gpc = "mainloop"
  /\ moves < MaxMoves
  /\ \E o \in outcomes :
       /\ game' = o.self
       /\ last' = Event(key, o.moved)
       /\ IF o.moved
          THEN /\ shown' = UpdateGridCells(o.self, ~CanMove(o.self.grid))
               /\ moves' = moves + 1
               /\ premove' = Some([grid |-> game.grid, score |-> game.score])
          ELSE UNCHANGED <<shown, moves, premove>>
  /\ UNCHANGED <<notGame, attrs, gpc, gexc>>

\* Lines 182-183.
KeyLeft == HandleMove("Left", MoveLeft(game))

\* Lines 184-185.
KeyRight == HandleMove("Right", MoveRight(game))

\* Lines 186-187.
KeyUp == HandleMove("Up", MoveUp(game))

\* Lines 188-189.
KeyDown == HandleMove("Down", MoveDown(game))

\* Lines 193-195: any other key.
KeyOther ==
  /\ gpc = "mainloop"
  /\ last' = [op |-> "other"]
  /\ UNCHANGED <<notGame, game, attrs, shown, gpc, gexc, moves, premove>>

\* new_game, lines 64-66: the key r (lines 190-192) or the New Game button.
NewGame ==
  /\ gpc = "mainloop"
  /\ moves < MaxMoves
  /\ \E gm \in ResetGame :
       /\ game' = gm
       /\ shown' = UpdateGridCells(gm, FALSE)
  /\ moves' = moves + 1
  /\ premove' = None
  /\ last' = [op |-> "new_game"]
  /\ UNCHANGED <<notGame, attrs, gpc, gexc>>

\* undo, lines 210-215: the Undo button.
Undo ==
  /\ gpc = "mainloop"
  /\ IF game.previous_grid # None
     THEN /\ game' = [game EXCEPT !.grid = game.previous_grid[1],
                                  !.score = game.previous_score,
                                  !.previous_grid = None]
          /\ shown' = UpdateGridCells(game', FALSE)
     ELSE UNCHANGED <<game, shown>>
  /\ premove' = None
  /\ last' = [op |-> "undo"]
  /\ UNCHANGED <<notGame, attrs, gpc, gexc, moves>>

\* The New Game button of the game-over window, line 207: the window is
\* destroyed and new_game (lines 64-66) is called.
PopupNewGame ==
  /\ gpc = "mainloop"
  /\ shown.popups > 0
  /\ \E gm \in ResetGame :
       /\ game' = gm
       /\ shown' = [UpdateGridCells(gm, FALSE) EXCEPT !.popups = @ - 1]
  /\ premove' = None
  /\ last' = [op |-> "new_game"]
  /\ UNCHANGED <<notGame, attrs, gpc, gexc, moves>>

\* The Quit button of the game-over window, line 208: master.quit ends the
\* main loop (line 229) and main returns.
PopupQuit ==
  /\ gpc = "mainloop"
  /\ shown.popups > 0
  /\ gpc' = "quit"
  /\ UNCHANGED <<notGame, game, attrs, shown, gexc, moves, premove, last>>

\* Positions of a game in progress, each reached by play from a new game
\* (cells are row, column from the top left, starting at 1): self is the
\* object's fields, before is the grid and score that the latest move found,
\* None when no move was made since the new game.
StartPositions ==
  { \* a new game: 2 and 2 side by side
    [self |-> [grid |-> <<<<0, 0, 0, 0>>, <<2, 2, 0, 0>>, <<0, 0, 0, 0>>, <<0, 0, 0, 0>>>>,
               previous_grid |-> None, previous_score |-> 0, score |-> 0],
     before |-> None],
    \* a new game: 2 and 4 in the top left corner
    [self |-> [grid |-> <<<<2, 4, 0, 0>>, <<0, 0, 0, 0>>, <<0, 0, 0, 0>>, <<0, 0, 0, 0>>>>,
               previous_grid |-> None, previous_score |-> 0, score |-> 0],
     before |-> None],
    \* the first position, then up (a 2 appears at 1,3) and down (a 2 at 4,4)
    [self |-> [grid |-> <<<<0, 0, 0, 0>>, <<0, 0, 0, 0>>, <<0, 0, 0, 0>>, <<2, 2, 2, 2>>>>,
               previous_grid |-> Some(<<<<0, 0, 0, 2>>, <<0, 0, 0, 2>>, <<0, 0, 0, 2>>, <<0, 0, 0, 0>>>>),
               previous_score |-> 0, score |-> 0],
     before |-> Some([grid |-> <<<<2, 2, 2, 0>>, <<0, 0, 0, 0>>, <<0, 0, 0, 0>>, <<0, 0, 0, 0>>>>,
                      score |-> 0])],
    \* a new game with 4 at 1,1 and 2 at 2,2, then up (a 2 appears at 1,3)
    [self |-> [grid |-> <<<<4, 2, 2, 0>>, <<0, 0, 0, 0>>, <<0, 0, 0, 0>>, <<0, 0, 0, 0>>>>,
               previous_grid |-> Some(<<<<4, 0, 0, 0>>, <<0, 2, 0, 0>>, <<0, 0, 0, 0>>, <<0, 0, 0, 0>>>>),
               previous_score |-> 0, score |-> 0],
     before |-> Some([grid |-> <<<<4, 0, 0, 0>>, <<0, 2, 0, 0>>, <<0, 0, 0, 0>>, <<0, 0, 0, 0>>>>,
                      score |-> 0])],
    \* a new game with 2 at 1,1 and 2 at 2,2, then left (a 4 appears at 3,1)
    [self |-> [grid |-> <<<<2, 0, 0, 0>>, <<2, 0, 0, 0>>, <<4, 0, 0, 0>>, <<0, 0, 0, 0>>>>,
               previous_grid |-> Some(<<<<2, 0, 0, 0>>, <<0, 2, 0, 0>>, <<0, 0, 0, 0>>, <<0, 0, 0, 0>>>>),
               previous_score |-> 0, score |-> 0],
     before |-> Some([grid |-> <<<<2, 0, 0, 0>>, <<0, 2, 0, 0>>, <<0, 0, 0, 0>>, <<0, 0, 0, 0>>>>,
                      score |-> 0])],
    \* the position before the last move of a game of 23 moves that ended
    \* with no move left; its latest move was up (a 2 appeared at 4,4)
    [self |-> [grid |-> <<<<8, 2, 4, 8>>, <<2, 4, 2, 4>>, <<4, 2, 4, 0>>, <<2, 8, 2, 2>>>>,
               previous_grid |-> Some(<<<<8, 2, 4, 2>>, <<2, 4, 2, 8>>, <<4, 2, 4, 2>>, <<0, 0, 8, 4>>>>),
               previous_score |-> 48, score |-> 48],
     before |-> Some([grid |-> <<<<8, 2, 4, 0>>, <<2, 4, 2, 0>>, <<4, 2, 4, 8>>, <<2, 8, 2, 4>>>>,
                      score |-> 48])] }

\* Either Game2048(root) is entered (line 228), or the handlers are called on
\* an object that holds a game in progress and every attribute __init__
\* assigns.
InitGame ==
  /\ OnlyGame
  /\ gexc = None /\ moves = 0 /\ last = <<>>
  /\ \/ /\ gpc = "init_reset"
        /\ game = <<>>
        /\ attrs = {"master"}
        /\ shown = <<>>
        /\ premove = None
     \/ /\ gpc = "mainloop"
        /\ \E s \in StartPositions : game = s.self /\ premove = s.before
        /\ attrs = AllAttrs
        /\ shown = [cells |-> game.grid, score |-> Some(game.score), popups |-> 0]

NextGame ==
  \/ InitReset \/ InitWidgets \/ InitUpdate
  \/ KeyLeft \/ KeyRight \/ KeyUp \/ KeyDown \/ KeyOther
  \/ NewGame \/ Undo
  \/ PopupNewGame \/ PopupQuit

SpecGame == InitGame /\ [][NextGame]_vars

---------------------------------------------------------------------------
(* Properties *)

Built == b # None /\ ret # None

BothFeesGiven(a) == a.max_fee_gwei # None /\ a.max_priority_fee_gwei # None

OneFeeGiven(a) ==
  (a.max_fee_gwei # None /\ a.max_priority_fee_gwei = None)
    \/ (a.max_fee_gwei = None /\ a.max_priority_fee_gwei # None)

NoFeeGiven(a) == a.gas_price_gwei = None /\ ~BothFeesGiven(a)

FeeMarketKeys == {"type", "maxFeePerGas", "maxPriorityFeePerGas"}

IsRpc(k, method) == log[k].kind = "rpc" /\ log[k].name = method

NodeFailedAt(k) == log[k].kind = "rpc" /\ ~log[k].ok

\* C1: no command prints a private key: no line printed through safe_print,
\* the error line of main included, holds a private key.
C1_NoPrivateKeyPrinted ==
  \A k \in 1..Len(log) :
    log[k].kind = "print" =>
      \A j \in 1..Len(log[k].data) : log[k].data[j].t # "privkey"

\* C2: the variant follows from the two fee arguments alone: both given, the
\* record returned is the fee-market one (type 0x2, both fee fields); in
\* every other case it is the legacy one with gasPrice.
C2_VariantFromFeeArguments ==
  Built =>
    IF BothFeesGiven(b[1])
    THEN /\ FeeMarketKeys \subseteq DOMAIN ret[1]
         /\ ret[1].type = "0x2"
         /\ ret[1].maxFeePerGas = ScaleToInt(b[1].max_fee_gwei[1], 9)
         /\ ret[1].maxPriorityFeePerGas = ScaleToInt(b[1].max_priority_fee_gwei[1], 9)
    ELSE /\ "gasPrice" \in DOMAIN ret[1]
         /\ "type" \notin DOMAIN ret[1]

\* A fee-market record was returned though a legacy gas price was given too.
C2_Witness ==
  /\ Built
  /\ BothFeesGiven(b[1])
  /\ b[1].gas_price_gwei # None
  /\ ret[1].type = "0x2"

\* C3: a returned record holds the fields of exactly one variant: never
\* gasPrice beside a fee-market field, and a fee-market record has both
\* fee-market fields.
C3_OneVariantOnly ==
  Built =>
    LET keys == DOMAIN ret[1]
    IN  /\ "gasPrice" \in keys => keys \cap FeeMarketKeys = {}
        /\ keys \cap FeeMarketKeys # {} => FeeMarketKeys \subseteq keys
        /\ "gasPrice" \in keys \/ FeeMarketKeys \subseteq keys

\* All three fee arguments were given and the record returned has no gasPrice.
C3_Witness ==
  /\ Built
  /\ b[1].gas_price_gwei # None
  /\ b[1].max_fee_gwei # None
  /\ b[1].max_priority_fee_gwei # None
  /\ "gasPrice" \notin DOMAIN ret[1]
  /\ "maxFeePerGas" \in DOMAIN ret[1]

C5_OneFeeRejected ==
  (b # None /\ OneFeeGiven(b[1])) => ret = None


IsCall(k, fn) == log[k].kind = "call" /\ log[k].name = fn

IsReturn(k, fn) == log[k].kind = "return" /\ log[k].name = fn

\* C6: Built -> Signed -> Broadcast with no state skipped: whatever is
\* handed to send_raw_transaction was returned by an earlier
\* sign_transaction, and whatever is handed to sign_transaction was
\* returned by an earlier, completed build_eth_transaction.
C6_LifecycleInOrder ==
  \A k \in 1..Len(log) :
    /\ IsRpc(k, "send_raw_transaction") =>
         \E j \in 1..(k - 1) :
           /\ IsReturn(j, "sign_transaction")
           /\ log[j].data.rawTransaction = log[k].data
    /\ IsCall(k, "sign_transaction") =>
         \E j \in 1..(k - 1) :
           /\ IsReturn(j, "build_eth_transaction")
           /\ log[j].data = log[k].data

\* A send ran to its end and the node holds the transaction.
C6_Witness ==
  /\ cmd = "send"
  /\ pc = "done"
  /\ mempool # {}

\* The transaction shown in the preview.
Previewed ==
  {log[k].data[1].v : k \in {j \in 1..Len(log) :
                               log[j].kind = "print" /\ log[j].name = "preview"}}

C7_SameTransaction ==
  \A k \in 1..Len(log) :
    /\ IsCall(k, "sign_transaction") =>
         /\ log[k].data = ret[1]
         /\ Previewed = {log[k].data}
    /\ IsRpc(k, "send_raw_transaction") =>
         /\ log[k].data = signed[1].rawTransaction
         /\ Previewed = {log[k].data.payload}

\* C7: a transaction is not altered after it is built: the record signed is
\* field for field the record the builder returned and the preview showed,
\* the bytes broadcast are the rawTransaction of that signing, and neither
\* the record nor the signed transaction changes once it exists.
C7_NotAlteredAfterBuild ==
  /\ []C7_SameTransaction
  /\ [][(ret # None => ret' = ret) /\ (signed # None => signed' = signed)]_vars

\* The signed transaction was handed to the node, which refused it.
C7_Witness ==
  /\ signed # None
  /\ \E k \in 1..Len(log) : IsRpc(k, "send_raw_transaction") /\ ~log[k].ok

C8_AbortedCleanly ==
  \A k \in 1..Len(log) :
    (cmd \in {"build", "send"} /\ NodeFailedAt(k)) =>
      /\ \A j \in (k + 1)..Len(log) : log[j].kind = "print" /\ log[j].name = "error"
      /\ log[k].name # "send_raw_transaction" => ret = None /\ signed = None
      /\ mempool = {}
      /\ exc \in {Some("NodeError"), Some("ConnectionError")}

NodeFailed == cmd \in {"build", "send"} /\ \E k \in 1..Len(log) : NodeFailedAt(k)

\* C8: when a node call fails the operation aborts: the builder returns no
\* record, nothing is signed, sent or asked of the node afterwards, and the
\* arguments, the returned values and the node's pool stay as they were.
C8_NodeFailureAborts ==
  /\ []C8_AbortedCleanly
  /\ [][NodeFailed => UNCHANGED <<args, b, ret, signed, mempool>>]_vars

\* In a send, the gas estimate failed and main has printed the error.
C8_Witness ==
  /\ cmd = "send"
  /\ pc = "done"
  /\ \E k \in 1..Len(log) : IsRpc(k, "estimate_gas") /\ ~log[k].ok

\* Whether the node was asked `method` and answered v.
NodeAnswered(method, v) ==
  \E k \in 1..Len(log) : IsRpc(k, method) /\ log[k].ok /\ log[k].reply = v

NodeNotAsked(method) == \A k \in 1..Len(log) : ~IsRpc(k, method)

\* C9: for nonce, chain_id and gas, a value the caller gives (0 included) is
\* the value in the record and the node is not asked; the node's answer is
\* used only when the argument is omitted.
C9_GivenValuesUsed ==
  (cmd = "build" /\ Built) =>
    /\ IF b[1].nonce # None
       THEN ret[1].nonce = b[1].nonce[1] /\ NodeNotAsked("get_transaction_count")
       ELSE NodeAnswered("get_transaction_count", ret[1].nonce)
    /\ IF b[1].chain_id # None
       THEN ret[1].chainId = b[1].chain_id[1] /\ NodeNotAsked("chain_id")
       ELSE NodeAnswered("chain_id", ret[1].chainId)
    /\ IF b[1].gas # None
       THEN ret[1].gas = b[1].gas[1] /\ NodeNotAsked("estimate_gas")
       ELSE NodeAnswered("estimate_gas", ret[1].gas)

\* amount * 10^n for a non-negative decimal with at most n decimal places.
ExactScaled(d, n) == BigInt(FALSE, d.digits \o Zeros(n + d.exp))

InScale(d, n) == d.sign = 0 /\ d.exp <= 0 /\ 0 - d.exp <= n

\* C10: unit conversion is exact: the wei value in the record is amount *
\* 10^18 for every non-negative ETH amount with at most 18 decimal places,
\* and each wei fee is amount * 10^9 for every Gwei amount with at most 9.
C10_ExactConversion ==
  Built =>
    /\ InScale(b[1].value_eth, 18) =>
         ret[1].value = ExactScaled(b[1].value_eth, 18)
    /\ ("gasPrice" \in DOMAIN ret[1] /\ b[1].gas_price_gwei # None
          /\ InScale(b[1].gas_price_gwei[1], 9)) =>
         ret[1].gasPrice = ExactScaled(b[1].gas_price_gwei[1], 9)
    /\ ("maxFeePerGas" \in DOMAIN ret[1] /\ InScale(b[1].max_fee_gwei[1], 9)) =>
         ret[1].maxFeePerGas = ExactScaled(b[1].max_fee_gwei[1], 9)

\* Every private key and mnemonic that a run may hold.
Secrets == ValidKeys \cup TypedKeys \cup ValidMnemonics \cup TypedMnemonics
             \cup {"kbad", "mbad"}

ChecksumAddresses == {"A1", "A2", "T1"}

\* The argument of the node call log[k] holds only addresses and amounts.
RpcArgumentClean(k) ==
  LET d == log[k].data
      n == log[k].name
  IN  CASE n \in {"isConnected", "chain_id", "gas_price"} -> d = None
        [] n \in {"get_transaction_count", "get_balance"} -> d \in ChecksumAddresses
        [] n = "estimate_gas" ->
             /\ DOMAIN d = {"to", "from", "value"}
             /\ d.to \in ChecksumAddresses
             /\ d.from \in ChecksumAddresses
        [] n = "contract_call" ->
             /\ d.address \in ChecksumAddresses
             /\ \A j \in 1..Len(d.args) : d.args[j] \in ChecksumAddresses
        [] n = "send_raw_transaction" ->
             /\ DOMAIN d = {"signer", "payload"}
             /\ d.signer = loc.from_addr
             /\ d.signer \notin Secrets
             /\ d.payload = ret[1]
             /\ d.payload.from = loc.from_addr
             /\ d.payload.to \in ChecksumAddresses
        [] OTHER -> FALSE

\* C11: no argument of a node call holds a private key or a mnemonic: the
\* node is handed addresses, amounts and call skeletons, and of what comes
\* from the key only the sender's address and the signed raw transaction.
C11_NoSecretTransmitted ==
  \A k \in 1..Len(log) : log[k].kind = "rpc" => RpcArgumentClean(k)

\* A send whose key was typed at the prompt reached the node's pool.
C11_Witness ==
  /\ cmd = "send"
  /\ args.privkey = None
  /\ loc # <<>> /\ "priv" \in DOMAIN loc /\ loc.priv \in Secrets
  /\ mempool # {}

\* C12: verifymsg does not depend on the node: it makes no node call, and
\* for a well-formed signature it ends having printed the recovered signer,
\* reachable endpoint or not.
C12_VerifyIndependentOfNode ==
  cmd = "verifymsg" =>
    /\ \A k \in 1..Len(log) : log[k].kind # "rpc"
    /\ (pc = "done" /\ args.signature.wellformed) =>
         /\ exc = None
         /\ \E k \in 1..Len(log) :
              /\ log[k].kind = "print"
              /\ log[k].name = "recovered"
              /\ log[k].data[2] = Adr(VerifyMessage(args.signature, args.message))

\* C13: sign then verify gives back the signer: for every valid key and
\* every text, the empty one included, sign_message returns a result whose
\* address is the key's address, and verify_message on its signature and
\* the same text returns that address.
C13_SignVerifyRoundTrip ==
  (cmd = "signverify" /\ args.privkey \in ValidKeys) =>
    /\ exc = None
    /\ pc = "sv_verify" => loc.res.address = AddressOfKey(args.privkey)[1]
    /\ pc = "done" => loc.signer = AddressOfKey(args.privkey)[1]

\* The same, for a library whose signed object has the attribute address.
RoundTripWhenSigned ==
  lib.signed_address => C13_SignVerifyRoundTrip

\* The call of frame f run alone: from its start, with the node replies rs.
RECURSIVE RunAlone(_, _)
RunAlone(f, rs) ==
  IF Terminated(f) THEN f
  ELSE IF Asks(f) = "none" THEN RunAlone(Step(f, None), rs)
  ELSE IF Len(rs) = 0 THEN f
  ELSE RunAlone(Step(f, Some(Head(rs))), Tail(rs))

Outcome(f) == [out |-> f.out, exc |-> f.exc]

NonNegative(n) == ~n.neg

\* C15: every record the builder returns has non-negative value, fee fields
\* (gasPrice, or maxFeePerGas and maxPriorityFeePerGas), gas and nonce,
\* whatever the arguments were.
C15_NonNegativeFields ==
  Built =>
    /\ NonNegative(ret[1].value)
    /\ "gasPrice" \in DOMAIN ret[1] => NonNegative(ret[1].gasPrice)
    /\ "maxFeePerGas" \in DOMAIN ret[1] =>
         NonNegative(ret[1].maxFeePerGas) /\ NonNegative(ret[1].maxPriorityFeePerGas)
    /\ ret[1].gas >= 0
    /\ ret[1].nonce >= 0

\* C16: a malformed mnemonic is rejected as InvalidMnemonic: mnemonic_to_seed
\* ends with that error and no seed whenever a word is not in the word
\* list, and a derivation that fails on such a mnemonic reports that error
\* kind and no other.
C16_MalformedMnemonicRejected ==
  /\ (cmd = "toseed" /\ args.mnemonic \notin ValidMnemonics /\ pc # "toseed") =>
       /\ exc = Some("InvalidMnemonic")
       /\ loc = <<>>
  /\ (cmd = "derive" /\ pc \in {"main_except", "done"} /\ exc # None
        /\ loc.mnemonic \notin ValidMnemonics) =>
       exc = Some("InvalidMnemonic")

IsPrompt(k) == log[k].kind = "input" /\ log[k].name = "confirm"

\* The answer is yes or y, whatever the case and the blanks around it.
SaysYes(a) == LowerStr(StripStr(a)) \in {<<"y", "e", "s">>, <<"y">>}

\* C17: the send command signs and broadcasts only after an explicit yes:
\* the preview of the built record is printed before the prompt, a signing
\* or a broadcast is preceded by an answer that says yes, and after any
\* other answer sign_transaction and send_raw_transaction are never called.
C17_NothingWithoutConfirmation ==
  cmd = "send" =>
    \A k \in 1..Len(log) :
      /\ IsPrompt(k) =>
           /\ \E j \in 1..(k - 1) :
                /\ log[j].kind = "print" /\ log[j].name = "preview"
                /\ log[j].data = <<Obj(ret[1])>>
           /\ ~SaysYes(log[k].data) =>
                /\ signed = None /\ mempool = {}
                /\ \A j \in 1..Len(log) :
                     ~IsCall(j, "sign_transaction") /\ ~IsRpc(j, "send_raw_transaction")
      /\ (IsCall(k, "sign_transaction") \/ IsRpc(k, "send_raw_transaction")) =>
           \E j \in 1..(k - 1) : IsPrompt(j) /\ SaysYes(log[j].data)

\* The user answered "yes!" and the command ended.
C17_Witness ==
  /\ cmd = "send"
  /\ pc = "done"
  /\ \E k \in 1..Len(log) : IsPrompt(k) /\ log[k].data = <<"y", "e", "s", "!">>
  /\ log[Len(log)].name = "cancelled"


\* C19: constructing Game2048 completes without error: no attribute is read
\* before it is assigned, so no exception leaves __init__.
C19_ConstructionCompletes == gexc = None

\* Every start position with a latest move is an outcome of that move.
StartPositionsReached ==
  \A s \in StartPositions :
    s.before # None =>
      LET gm == [grid |-> s.before[1].grid, score |-> s.before[1].score,
                 previous_grid |-> None, previous_score |-> 0]
      IN  \E o \in MoveLeft(gm) \cup MoveRight(gm) \cup MoveUp(gm) \cup MoveDown(gm) :
            o.moved /\ o.self = s.self

\* C18: undo after a move in any direction sets the grid and the score to
\* what they were immediately before that move; an undo with no move since
\* the last new game or undo changes nothing.
C18_UndoRestoresPreMove ==
  [][Undo =>
       IF premove # None
       THEN game'.grid = premove[1].grid /\ game'.score = premove[1].score
       ELSE game' = game]_vars


\* The four directions of a move.
Directions == {"Left", "Right", "Up", "Down"}

\* The tiles of a line in the order the move meets them, the first one
\* being the nearest to the edge they move to: every tile merges with the
\* next one if they are equal, and a tile takes part in one merge at most.
RECURSIVE PairUp(_)
PairUp(t) ==
  IF t = <<>> THEN [tiles |-> <<>>, gain |-> 0]
  ELSE IF Len(t) >= 2 /\ t[1] = t[2]
       THEN LET r == PairUp(SubSeq(t, 3, Len(t)))
            IN  [tiles |-> <<2 * t[1]>> \o r.tiles, gain |-> 2 * t[1] + r.gain]
       ELSE LET r == PairUp(Tail(t))
            IN  [tiles |-> <<t[1]>> \o r.tiles, gain |-> r.gain]

\* Line k of grid g read from the edge the tiles move to.
LineOf(g, dir, k) ==
  [n \in 1..GRID_LEN |->
     CASE dir = "Left"  -> g[k][n]
       [] dir = "Right" -> g[k][GRID_LEN + 1 - n]
       [] dir = "Up"    -> g[n][k]
       [] dir = "Down"  -> g[GRID_LEN + 1 - n][k]]

\* The line, and the place in it, of the cell in row i and column j.
LineAt(dir, i, j) == IF dir \in {"Left", "Right"} THEN i ELSE j

PlaceAt(dir, i, j) ==
  CASE dir = "Left"  -> j
    [] dir = "Right" -> GRID_LEN + 1 - j
    [] dir = "Up"    -> i
    [] dir = "Down"  -> GRID_LEN + 1 - i

TilesOf(line) == SelectSeq(line, LAMBDA v : v # 0)

\* The grid after the slide and merge to dir, in the orientation of g, and
\* the sum of the new values of the merged tiles.
Slid(g, dir) ==
  [i \in 1..GRID_LEN |-> [j \in 1..GRID_LEN |->
     LET tiles == PairUp(TilesOf(LineOf(g, dir, LineAt(dir, i, j)))).tiles
         n     == PlaceAt(dir, i, j)
     IN  IF n <= Len(tiles) THEN tiles[n] ELSE 0]]

Gain(g, dir) ==
  SumSeq([k \in 1..GRID_LEN |-> PairUp(TilesOf(LineOf(g, dir, k))).gain])

GridSum(g) == SumSeq([i \in 1..GRID_LEN |-> SumSeq(g[i])])

\* C20: a move in any direction that changes the grid merges each tile at
\* most once, adds the merged tiles' new values to the score and places
\* exactly one tile, 2 or 4, on a cell left empty by the slide, the grid
\* keeping its size and orientation; a move that changes nothing leaves the
\* grid, the score and the saved undo state as they were and adds no tile.
C20_MoveEffect ==
  (last # <<>> /\ last.op \in Directions) =>
    LET slid == Slid(last.grid, last.op)
        new  == {c \in Cells : game.grid[c[1]][c[2]] # slid[c[1]][c[2]]}
    IN  IF slid # last.grid
        THEN /\ last.moved
             /\ game.score = last.score + Gain(last.grid, last.op)
             /\ DOMAIN game.grid = 1..GRID_LEN
             /\ \A i \in 1..GRID_LEN : DOMAIN game.grid[i] = 1..GRID_LEN
             /\ Cardinality(new) = 1
             /\ \A c \in new :
                  /\ slid[c[1]][c[2]] = 0
                  /\ game.grid[c[1]][c[2]] \in {2, 4}
                  /\ GridSum(game.grid) = GridSum(last.grid) + game.grid[c[1]][c[2]]
        ELSE /\ ~last.moved
             /\ game.grid = last.grid
             /\ game.score = last.score
             /\ game.previous_grid = last.previous_grid
             /\ game.previous_score = last.previous_score

\* A move to the right of the row 4, 2, 2: the two tiles 2 merge into a 4
\* that does not merge with the 4 next to it.
C20_Witness ==
  /\ last # <<>> /\ last.op = "Right" /\ last.moved
  /\ last.grid[1] = <<4, 2, 2, 0>>
  /\ game.grid[1][3] = 4 /\ game.grid[1][4] = 4
  /\ game.score = last.score + 4


\* move_left, lines 122-131, would return True on grid g: some row differs
\* from its final row.
RowsChange(g) == \E i \in 1..GRID_LEN : FinalRow(g[i]) # g[i]

\* Some move of the four would change grid g: each move method transforms
\* the grid as lines 140-156 do and compares the rows.
SomeMoveChanges(g) ==
  \/ RowsChange(g)
  \/ RowsChange(ReflectHorizontal(g))
  \/ RowsChange(Transpose(g))
  \/ RowsChange(ReflectHorizontal(Transpose(g)))

\* The move methods return what RowsChange says.
MovedAsRowsChange ==
  gpc = "mainloop" =>
    /\ \A o \in MoveLeft(game)  : o.moved <=> RowsChange(game.grid)
    /\ \A o \in MoveRight(game) : o.moved <=> RowsChange(ReflectHorizontal(game.grid))
    /\ \A o \in MoveUp(game)    : o.moved <=> RowsChange(Transpose(game.grid))
    /\ \A o \in MoveDown(game)  : o.moved <=> RowsChange(ReflectHorizontal(Transpose(game.grid)))

\* C21: in every state reached by moves, undos and new games, can_move
\* returns False exactly when none of the four moves would change the grid,
\* by the move methods and by the slide defined line by line alike; and a
\* handler opens the game-over window exactly when it handled a direction
\* key, the move succeeded and no move would change the grid it left.
C21_GameOverExact ==
  /\ [](gpc = "mainloop" =>
          /\ CanMove(game.grid) <=> SomeMoveChanges(game.grid)
          /\ CanMove(game.grid) <=> \E d \in Directions : Slid(game.grid, d) # game.grid)
  /\ [][gpc = "mainloop" =>
          ((shown'.popups = shown.popups + 1) <=>
             /\ last' # last
             /\ last'.op \in Directions
             /\ last'.moved
             /\ ~SomeMoveChanges(game'.grid))]_vars

\* The move up that fills the grid with no two equal neighbours: the
\* game-over window is open.
C21_Witness ==
  /\ gpc = "mainloop"
  /\ last # <<>> /\ last.op = "Up" /\ last.moved
  /\ game.grid = <<<<8, 2, 4, 8>>, <<2, 4, 2, 4>>, <<4, 2, 4, 2>>, <<2, 8, 2, 4>>>>
  /\ ~CanMove(game.grid)
  /\ shown.popups = 1

=============================================================================
